---- MODULE Spec2Model ----
(***************************************************************************)
(* gpustat_web/app.py: the per-host SSH supervisors (run_client), the      *)
(* fleet start-up (spawn_clients, create_app), the shared status store     *)
(* (Context.host_status) and the snapshot readers (render_gpustat_body,    *)
(* the static handlers and the websocket handler).                         *)
(*                                                                         *)
(* Text is a sequence of atoms: single characters, the names used as host  *)
(* and user names, and the terminal escape codes WHITE, RED and RESET.     *)
(* One step of the model is what one coroutine runs between two awaits.    *)
(***************************************************************************)
EXTENDS Integers, Sequences, FiniteSets, TLC

\* Longest captured stdout / stderr the remote command returns.
MaxLen == 2

------------------------------------------------------------------------------
\* Text helpers

Whitespace == {" ", "\n"}

RECURSIVE lstrip(_)
lstrip(s) ==
  IF s # <<>> /\ Head(s) \in Whitespace THEN lstrip(Tail(s)) ELSE s

RECURSIVE rstrip(_)
rstrip(s) ==
  IF s # <<>> /\ s[Len(s)] \in Whitespace
  THEN rstrip(SubSeq(s, 1, Len(s) - 1)) ELSE s

\* str.strip()
strip(s) == rstrip(lstrip(s))

\* str.split(sep): the list of pieces between the separators
RECURSIVE split(_, _)
split(s, sep) ==
  IF \E k \in 1..Len(s) : s[k] = sep
  THEN LET k == CHOOSE j \in 1..Len(s) :
                  s[j] = sep /\ \A m \in 1..(j - 1) : s[m] # sep
       IN  <<SubSeq(s, 1, k - 1)>> \o split(SubSeq(s, k + 1, Len(s)), sep)
  ELSE <<s>>

\* termcolor.colored(text, color)
WHITE == "ESC[white"
RED   == "ESC[red"
RESET == "ESC[0m"
AnsiCodes == {WHITE, RED, RESET}

colored(text, color) == <<color>> \o text \o <<RESET>>

\* All texts over an alphabet up to a length
RECURSIVE TextsUpTo(_, _)
TextsUpTo(chars, n) ==
  IF n = 0 THEN {<<>>}
  ELSE LET shorter == TextsUpTo(chars, n - 1)
       IN  shorter \cup {Append(t, c) : t \in shorter, c \in chars}

------------------------------------------------------------------------------
\* What the remote side can answer

\* conn.run(exec_cmd): exit status, stdout, stderr
Outputs == TextsUpTo({"g", " "}, MaxLen)
Stderrs == { <<>>, <<"e">>, <<"e", "\n", "e">>, <<"\n", "e">> }
NonZeroExits == {1}

RunResults ==
  {[exit_status |-> 0, stdout |-> o, stderr |-> <<>>] : o \in Outputs}
  \cup {[exit_status |-> x, stdout |-> <<>>, stderr |-> e] :
          x \in NonZeroExits, e \in Stderrs}

\* exceptions: type(e).__name__ and str(e)
ConnectErrors == {[kind |-> "OSError", msg |-> <<"refused">>]}
RunErrors     == {[kind |-> "TimeoutError", msg |-> <<>>]}

\* How a host behaves: "fail" never accepts a connection, "ok" always accepts
\* and always answers with exit status 0, "any" may do anything.
Modes == {"fail", "ok", "any"}

------------------------------------------------------------------------------
\* Host tokens: sequences of atoms. Names and digits are word characters
\* ([\w-]); "@", ":" and "." are not.

Names  == {"alice", "bob", "netdb", "node1", "node2"}
Digits == {"2"}
WordChars == Names \cup Digits \cup {"-"}
AllChars  == WordChars \cup {"@", ":", "."}
NotColon  == AllChars \ {":"}

\* create_app(default_port=22), main's --ssh-port default
default_port == 22

\* number of atoms of s from position p on that lie in cls (a greedy cls+)
RECURSIVE RunLen(_, _, _)
RunLen(s, p, cls) ==
  IF p <= Len(s) /\ s[p] \in cls THEN 1 + RunLen(s, p + 1, cls) ELSE 0

\* int(digits)
RECURSIVE int(_)
int(ds) ==
  IF ds = <<>> THEN 0
  ELSE 10 * int(SubSeq(ds, 1, Len(ds) - 1))
       + (CHOOSE n \in 0..9 : ToString(n) = ds[Len(ds)])

\* a parse that knows no user part: the host runs from the first atom on
_parse_host_string_no_user(netloc, dport) ==
  LET hl == RunLen(netloc, 1, NotColon)
      ps == hl + 2
      pl == IF hl + 1 <= Len(netloc) /\ netloc[hl + 1] = ":"
            THEN RunLen(netloc, ps, Digits) ELSE 0
  IN  IF hl = 0
      THEN [ok |-> FALSE, username |-> <<>>, hostname |-> <<>>, port |-> 0]
      ELSE [ok       |-> TRUE,
            username |-> <<"netdb">>,
            hostname |-> SubSeq(netloc, 1, hl),
            port     |-> IF pl > 0 THEN int(SubSeq(netloc, ps, ps + pl - 1))
                         ELSE dport]

\* re.match(r'(?:(?P<user>[\w-]+)@)?(?P<host>[^:]+)(?::(?P<port>\d+))?', netloc)
\* and the three values built from its groups; ok = FALSE is the ValueError.
\* The user group only takes part when a host can follow it; otherwise the
\* regex backtracks and the host group starts at the first atom.
_parse_host_string(netloc, dport) ==
  LET w       == RunLen(netloc, 1, WordChars)
      hasUser == /\ w >= 1
                 /\ w + 1 <= Len(netloc)
                 /\ netloc[w + 1] = "@"
                 /\ RunLen(netloc, w + 2, NotColon) >= 1
      hs      == IF hasUser THEN w + 2 ELSE 1
      hl      == RunLen(netloc, hs, NotColon)
      ps      == hs + hl + 1
      pl      == IF hs + hl <= Len(netloc) /\ netloc[hs + hl] = ":"
                 THEN RunLen(netloc, ps, Digits) ELSE 0
  IN  IF hl = 0
      THEN [ok |-> FALSE, username |-> <<>>, hostname |-> <<>>, port |-> 0]
      ELSE [ok       |-> TRUE,
            username |-> IF hasUser THEN SubSeq(netloc, 1, w) ELSE <<"netdb">>,
            hostname |-> SubSeq(netloc, hs, hs + hl - 1),
            port     |-> IF pl > 0 THEN int(SubSeq(netloc, ps, ps + pl - 1))
                         ELSE dport]

\* The host lists the service is started with
Tok_alice_node1_2222 == <<"alice", "@", "node1", ":", "2", "2", "2", "2">>
Tok_alice_node1      == <<"alice", "@", "node1">>
Tok_bob_node1_22     == <<"bob", "@", "node1", ":", "2", "2">>
Tok_node1            == <<"node1">>
Tok_node2            == <<"node2">>
Tok_colon_22         == <<":", "2", "2">>

HostLists ==
  { <<Tok_alice_node1_2222, Tok_node2>>,
    <<Tok_alice_node1, Tok_bob_node1_22>>,
    <<Tok_node1, Tok_colon_22>>,
    <<Tok_colon_22, Tok_node2>>,
    <<Tok_node1>>,
    <<Tok_colon_22>>,
    <<>> }

\* exec_cmds: None (create_app's default) or a dict hostname -> command
DEFAULT_EXEC_CMD == "gpustat --color --force-color"
ExecCmdChoices ==
  { [given |-> FALSE, cmds |-> <<>>],
    [given |-> TRUE,
     cmds  |-> << [host |-> <<"node1">>, cmd |-> "/opt/gpustat --color --force-color"] >>] }

\* dict.get(key, default) on a list of (host, value) items
RECURSIVE dict_get(_, _, _)
dict_get(items, key, default) ==
  IF items = <<>> THEN default
  ELSE IF Head(items).host = key THEN Head(items).cmd
  ELSE dict_get(Tail(items), key, default)

------------------------------------------------------------------------------
\* Context.host_status: an OrderedDict, a list of (host, status) items

\* OrderedDict.__setitem__: replace the value in place, or append a new key
dict_set(d, key, value) ==
  IF \E k \in 1..Len(d) : d[k].host = key
  THEN [k \in 1..Len(d) |->
          IF d[k].host = key THEN [host |-> key, status |-> value] ELSE d[k]]
  ELSE Append(d, [host |-> key, status |-> value])

has_key(d, key) == \E k \in 1..Len(d) : d[k].host = key

item(d, key) == d[CHOOSE k \in 1..Len(d) : d[k].host = key].status

\* a status text shared by all hosts instead of one per host
host_set_message_all(d, hostname, msg) ==
  LET text == colored(<<"(">> \o hostname \o <<") ">>, WHITE) \o msg \o <<"\n">>
      all  == dict_set(d, hostname, text)
  IN  [k \in 1..Len(all) |-> [host |-> all[k].host, status |-> text]]

\* the message added to the entry instead of replacing it
host_set_message_append(d, hostname, msg) ==
  dict_set(d, hostname,
           (IF has_key(d, hostname) THEN item(d, hostname) ELSE <<>>)
           \o colored(<<"(">> \o hostname \o <<") ">>, WHITE) \o msg \o <<"\n">>)

\* Context.host_set_message
host_set_message(d, hostname, msg) ==
  dict_set(d, hostname,
           colored(<<"(">> \o hostname \o <<") ">>, WHITE) \o msg \o <<"\n">>)

LOADING == <<"Loading ...">>

\* the output stored as captured: stdout + "\n\n\n\n"
store_output_raw(d, hostname, stdout) ==
  dict_set(d, hostname, stdout \o <<"\n", "\n", "\n", "\n">>)

\* _loop_body, exit status 0: context.host_status[hostname] = stdout.strip() + "\n\n\n\n"
store_output(d, hostname, stdout) ==
  dict_set(d, hostname, strip(stdout) \o <<"\n", "\n", "\n", "\n">>)

\* the whole of stderr in the message, not its first line
exit_message_whole(exit_status, stderr) ==
  colored(<<"[Error ", ToString(exit_status), "] ">> \o stderr, RED)

\* _loop_body, non-zero exit status: the first line of stderr, in red
exit_message(exit_status, stderr) ==
  colored(<<"[Error ", ToString(exit_status), "] ">> \o split(stderr, "\n")[1], RED)

\* the message without the exception's type name: f"{e}"
exception_message_str(e) == colored(e.msg, RED)

\* run_client's except clause: f"{type(e).__name__}: {e}", in red
exception_message(e) == colored(<<e.kind, ": ">> \o e.msg, RED)

\* what _loop_body writes for a command result
write_result(d, hostname, result) ==
  IF result.exit_status # 0
  THEN host_set_message(d, hostname, exit_message(result.exit_status, result.stderr))
  ELSE store_output(d, hostname, result.stdout)

------------------------------------------------------------------------------
\* spawn_clients up to its await: parse, placeholders, one run_client per host

parse_all(hs) == [k \in 1..Len(hs) |-> _parse_host_string(hs[k], default_port)]

RECURSIVE set_loading(_, _)
set_loading(d, parsed) ==
  IF parsed = <<>> THEN d
  ELSE set_loading(host_set_message(d, Head(parsed).hostname, LOADING), Tail(parsed))

\* run_client(..., poll_delay=5.0, ...): seconds
POLL_DELAY == 5

\* run_client's arguments: spawn_clients passes hostname, exec_cmd, port,
\* username (and verify_host, verbose); poll_delay keeps its default
make_clients(parsed, cmds) ==
  [k \in 1..Len(parsed) |->
     [hostname   |-> parsed[k].hostname,
      username   |-> parsed[k].username,
      port       |-> parsed[k].port,
      exec_cmd   |-> dict_get(cmds.cmds, parsed[k].hostname, DEFAULT_EXEC_CMD),
      poll_delay |-> POLL_DELAY]]

\* started = FALSE: an exception left the try block and was printed
spawn(d, hs, cmds) ==
  LET parsed == parse_all(hs)
  IN  IF \E k \in 1..Len(hs) : ~parsed[k].ok
      THEN [status |-> d, clients |-> <<>>, started |-> FALSE]   \* ValueError
      ELSE IF parsed = <<>>
      THEN [status |-> d, clients |-> <<>>, started |-> FALSE]   \* zip(*[]) unpack
      ELSE IF ~cmds.given
      THEN [status |-> set_loading(d, parsed), clients |-> <<>>,
            started |-> FALSE]                                   \* None.get
      ELSE [status |-> set_loading(d, parsed),
            clients |-> make_clients(parsed, cmds), started |-> TRUE]

------------------------------------------------------------------------------
\* Context.__init__: self.interval = 5.0 (seconds)
DEFAULT_INTERVAL == 5

\* main: if args.interval > 0.1: context.interval = args.interval
\* (whole seconds here: more than 0.1 is at least 1)
main_interval(arg) == IF arg >= 1 THEN arg ELSE DEFAULT_INTERVAL

\* the values of main's --interval
IntervalArgs == {0, 5, 10}

VARIABLES
  hosts,        \* create_app(hosts=...)
  interval,     \* context.interval
  exec_cmds,    \* create_app(exec_cmds=...)
  env,          \* how the host behind each token behaves (Modes)
  phase,        \* the web application: created, starting, serving, stopped
  tasks,        \* app['tasks']: none, pending, running, done, cancelled
  host_status,  \* context.host_status
  clients,      \* the arguments of each run_client coroutine gather runs
  pc,           \* where each run_client is suspended
  conn,         \* each run_client's SSH connection: none, open, closing
  exc,          \* the exception leaving each _loop_body's async with
  cancel,       \* Task.cancel() was called on the run_client and not yet delivered
  last_result,  \* history: per hostname, the latest finished attempt
  over_ok,      \* history: the step just taken wrote a failure message over
                \* the output of a successful poll
  ws,           \* a viewer's websocket: closed, open
  response      \* the reply the step just taken sends to a viewer, if any; the
                \* next request is taken once it is sent

vars == <<interval, hosts, exec_cmds, env, phase, tasks, host_status, clients, pc, conn,
          exc, cancel, last_result, over_ok, ws, response>>

config == <<hosts, exec_cmds, env, interval>>

NoException == [kind |-> "", msg |-> <<>>]

\* what a handler's step did for a viewer: via (none, http, ws), the ws message
\* it handled (data), the exception that left the handler (error), whether a
\* reply was sent, and the reply's body
NoResponse == [via |-> "none", data |-> "", mode |-> "", full |-> FALSE,
               query |-> [present |-> FALSE, text |-> <<>>],
               error |-> "", sent |-> FALSE, body |-> <<>>]

\* history values: what the latest finished attempt for a hostname was
Loading      == [type |-> "loading", exit_status |-> 0, stdout |-> <<>>,
                 stderr |-> <<>>, kind |-> "", msg |-> <<>>]
Ran(result)  == [type |-> "run", exit_status |-> result.exit_status,
                 stdout |-> result.stdout, stderr |-> result.stderr,
                 kind |-> "", msg |-> <<>>]
Raised(e)    == [type |-> "exc", exit_status |-> 0, stdout |-> <<>>,
                 stderr |-> <<>>, kind |-> e.kind, msg |-> e.msg]

Succeeded(r) == r.type = "run" /\ r.exit_status = 0

Sup == DOMAIN clients

Idle ==
  /\ phase = "created"
  /\ tasks = "none"
  /\ host_status = <<>>
  /\ clients = <<>>
  /\ pc = <<>>
  /\ conn = <<>>
  /\ exc = <<>>
  /\ cancel = <<>>
  /\ last_result = <<>>
  /\ over_ok = FALSE
  /\ ws = "closed"
  /\ response = NoResponse

\* every host may do anything: all behaviours of the service
Init ==
  /\ hosts \in HostLists
  /\ exec_cmds \in ExecCmdChoices
  /\ env = [k \in 1..Len(hosts) |-> "any"]
  /\ interval = DEFAULT_INTERVAL
  /\ Idle

\* create_app.start_background_tasks up to its sleep: the task is created
start_background_tasks ==
  /\ phase = "created"
  /\ phase' = "starting"
  /\ tasks' = "pending"
  /\ response' = NoResponse
  /\ over_ok' = FALSE
  /\ UNCHANGED <<config, host_status, clients, pc, conn, exc, cancel, last_result,
                 ws>>

\* the task's first step: spawn_clients up to "await asyncio.gather", or to its
\* except clause. gather wraps every run_client in a task of its own, and each
\* runs up to "asyncssh.connect".
spawn_clients ==
  /\ tasks = "pending"
  /\ LET out == spawn(host_status, hosts, exec_cmds)
         n   == Len(out.clients)
     IN  /\ host_status' = out.status
         /\ last_result' = [k \in 1..Len(out.status) |->
                              [host |-> out.status[k].host, status |-> Loading]]
         /\ clients' = out.clients
         /\ pc' = [k \in 1..n |-> "connecting"]
         /\ conn' = [k \in 1..n |-> "none"]
         /\ exc' = [k \in 1..n |-> NoException]
         /\ cancel' = [k \in 1..n |-> FALSE]
         /\ tasks' = IF out.started THEN "running" ELSE "done"
  /\ response' = NoResponse
  /\ over_ok' = FALSE
  /\ UNCHANGED <<config, phase, ws>>

\* start_background_tasks returns after its 0.1 s sleep; the site starts serving
startup_done ==
  /\ phase = "starting"
  /\ tasks # "pending"
  /\ phase' = "serving"
  /\ response' = NoResponse
  /\ over_ok' = FALSE
  /\ UNCHANGED <<config, tasks, host_status, clients, pc, conn, exc, cancel,
                 last_result, ws>>

------------------------------------------------------------------------------
\* run_client

hostname(i) == clients[i].hostname

\* the same, defined for every token position
where(i)    == IF i \in Sup THEN pc[i] ELSE "absent"
host_of(i)  == IF i \in Sup THEN clients[i].hostname ELSE <<>>
mode_of(i)  == IF i \in Sup /\ i \in DOMAIN env THEN env[i] ELSE "absent"

note(l, host, what) == dict_set(l, host, what)

\* the step writes a failure over the output of a successful poll
replaces_ok(i) == Succeeded(item(last_result, hostname(i)))

idle == <<config, phase, tasks, clients, ws>>

\* the placeholder written again at every new connection
connect_ok_loading(i) ==
  /\ pc[i] = "connecting" /\ ~cancel[i]
  /\ env[i] # "fail"
  /\ conn' = [conn EXCEPT ![i] = "open"]
  /\ pc' = [pc EXCEPT ![i] = "running"]
  /\ host_status' = host_set_message(host_status, hostname(i), LOADING)
  /\ last_result' = note(last_result, hostname(i), Loading)
  /\ response' = NoResponse
  /\ over_ok' = FALSE
  /\ UNCHANGED <<idle, exc, cancel>>

\* asyncssh.connect returned a connection; _loop_body goes on to conn.run
connect_ok(i) ==
  /\ pc[i] = "connecting" /\ ~cancel[i]
  /\ env[i] # "fail"
  /\ conn' = [conn EXCEPT ![i] = "open"]
  /\ pc' = [pc EXCEPT ![i] = "running"]
  /\ response' = NoResponse
  /\ over_ok' = FALSE
  /\ UNCHANGED <<idle, host_status, exc, cancel, last_result>>

\* asyncssh.connect raised: the except clause writes the message, and
\* run_client sleeps poll_delay
connect_failed(i) ==
  /\ pc[i] = "connecting" /\ ~cancel[i]
  /\ env[i] # "ok"
  /\ \E e \in ConnectErrors :
       /\ host_status' = host_set_message(host_status, hostname(i), exception_message(e))
       /\ last_result' = note(last_result, hostname(i), Raised(e))
  /\ pc' = [pc EXCEPT ![i] = "backoff"]
  /\ response' = NoResponse
  /\ over_ok' = replaces_ok(i)
  /\ UNCHANGED <<idle, conn, exc, cancel>>

\* conn.run returned within the timeout: the entry is written, and _loop_body
\* sleeps poll_delay
run_done(i) ==
  /\ pc[i] = "running" /\ ~cancel[i]
  /\ \E result \in RunResults :
       /\ env[i] = "ok" => result.exit_status = 0
       /\ host_status' = write_result(host_status, hostname(i), result)
       /\ last_result' = note(last_result, hostname(i), Ran(result))
       /\ over_ok' = (result.exit_status # 0 /\ replaces_ok(i))
  /\ pc' = [pc EXCEPT ![i] = "sleeping"]
  /\ response' = NoResponse
  /\ UNCHANGED <<idle, conn, exc, cancel>>

\* conn.run raised (timeout, connection lost): the async with closes the
\* connection and waits for it to be closed
run_raised(i) ==
  /\ pc[i] = "running" /\ ~cancel[i]
  /\ env[i] = "any"
  /\ \E e \in RunErrors : exc' = [exc EXCEPT ![i] = e]
  /\ conn' = [conn EXCEPT ![i] = "closing"]
  /\ pc' = [pc EXCEPT ![i] = "closing"]
  /\ response' = NoResponse
  /\ over_ok' = FALSE
  /\ UNCHANGED <<idle, host_status, cancel, last_result>>

\* the exception reaches the except clause with the connection left as it was
close_done_leak(i) ==
  /\ pc[i] = "closing" /\ ~cancel[i]
  /\ host_status' = host_set_message(host_status, hostname(i), exception_message(exc[i]))
  /\ last_result' = note(last_result, hostname(i), Raised(exc[i]))
  /\ exc' = [exc EXCEPT ![i] = NoException]
  /\ pc' = [pc EXCEPT ![i] = "backoff"]
  /\ response' = NoResponse
  /\ over_ok' = replaces_ok(i)
  /\ UNCHANGED <<idle, conn, cancel>>

\* the connection is closed: the exception reaches run_client's except clause,
\* which writes the message, and run_client sleeps poll_delay
close_done(i) ==
  /\ pc[i] = "closing" /\ ~cancel[i]
  /\ conn' = [conn EXCEPT ![i] = "none"]
  /\ host_status' = host_set_message(host_status, hostname(i), exception_message(exc[i]))
  /\ last_result' = note(last_result, hostname(i), Raised(exc[i]))
  /\ exc' = [exc EXCEPT ![i] = NoException]
  /\ pc' = [pc EXCEPT ![i] = "backoff"]
  /\ response' = NoResponse
  /\ over_ok' = replaces_ok(i)
  /\ UNCHANGED <<idle, cancel>>

\* _loop_body's sleep is over: the next conn.run
poll_sleep_done(i) ==
  /\ pc[i] = "sleeping" /\ ~cancel[i]
  /\ pc' = [pc EXCEPT ![i] = "running"]
  /\ response' = NoResponse
  /\ over_ok' = FALSE
  /\ UNCHANGED <<idle, host_status, conn, exc, cancel, last_result>>

\* run_client's sleep is over: the next asyncssh.connect
backoff_done(i) ==
  /\ pc[i] = "backoff" /\ ~cancel[i]
  /\ pc' = [pc EXCEPT ![i] = "connecting"]
  /\ response' = NoResponse
  /\ over_ok' = FALSE
  /\ UNCHANGED <<idle, host_status, conn, exc, cancel, last_result>>

\* where a run_client goes when CancelledError is thrown into its await.
\* CancelledError is no Exception: the except clause does not catch it. Inside
\* the async with, the connection is closed on the way out.
on_cancelled(at, connection) ==
  IF connection = "none" THEN [pc |-> "cancelled", conn |-> "none"]
  ELSE [pc |-> "cancel_closing", conn |-> "closing"]

\* CancelledError caught like any exception (except BaseException): the
\* message is written and run_client sleeps and connects again
cancelled_error_caught(i) ==
  /\ cancel[i]
  /\ LET e == [kind |-> "CancelledError", msg |-> <<>>]
     IN  /\ host_status' = host_set_message(host_status, hostname(i), exception_message(e))
         /\ last_result' = note(last_result, hostname(i), Raised(e))
  /\ pc' = [pc EXCEPT ![i] = "backoff"]
  /\ conn' = [conn EXCEPT ![i] = "none"]
  /\ cancel' = [cancel EXCEPT ![i] = FALSE]
  /\ exc' = [exc EXCEPT ![i] = NoException]
  /\ response' = NoResponse
  /\ over_ok' = FALSE
  /\ UNCHANGED idle

cancelled_error(i) ==
  /\ cancel[i]
  /\ LET to == on_cancelled(pc[i], conn[i])
     IN  /\ pc' = [pc EXCEPT ![i] = to.pc]
         /\ conn' = [conn EXCEPT ![i] = to.conn]
  /\ cancel' = [cancel EXCEPT ![i] = FALSE]
  /\ exc' = [exc EXCEPT ![i] = NoException]
  /\ response' = NoResponse
  /\ over_ok' = FALSE
  /\ UNCHANGED <<idle, host_status, last_result>>

\* the connection a cancelled run_client was closing is closed
cancel_closed(i) ==
  /\ pc[i] = "cancel_closing"
  /\ conn' = [conn EXCEPT ![i] = "none"]
  /\ pc' = [pc EXCEPT ![i] = "cancelled"]
  /\ response' = NoResponse
  /\ over_ok' = FALSE
  /\ UNCHANGED <<idle, host_status, exc, cancel, last_result>>

------------------------------------------------------------------------------
\* create_app.shutdown_background_tasks: app['tasks'].cancel(), and return.
\* Cancelling the task cancels the gather it awaits, which cancels every
\* run_client; a task that is done ignores cancel().
cancel_all(task, flags) ==
  IF task = "running" THEN [k \in DOMAIN flags |-> TRUE] ELSE flags

shutdown_background_tasks ==
  /\ phase = "serving"
  /\ phase' = "stopped"
  /\ cancel' = cancel_all(tasks, cancel)
  /\ response' = NoResponse
  /\ over_ok' = FALSE
  /\ UNCHANGED <<config, tasks, host_status, clients, pc, conn, exc, last_result,
                 ws>>

\* every run_client is cancelled: gather raises CancelledError into
\* spawn_clients, whose except clause does not catch it
gather_cancelled ==
  /\ tasks = "running"
  /\ phase = "stopped"
  /\ \A i \in Sup : pc[i] = "cancelled"
  /\ tasks' = "cancelled"
  /\ response' = NoResponse
  /\ over_ok' = FALSE
  /\ UNCHANGED <<config, phase, host_status, clients, pc, conn, exc, cancel,
                 last_result, ws>>

------------------------------------------------------------------------------
\* The readers

\* a query or payload value: absent (None) or a text
Absent == [present |-> FALSE, text |-> <<>>]
Text(t) == [present |-> TRUE, text |-> t]

Queries ==
  { Absent,
    Text(<<>>),
    Text(<<"node2">>),
    Text(<<" ", "node1", ",", "node2", " ">>) }

\* _parse_querystring_list: value.strip().split(',') if value else None
_parse_querystring_list(value) ==
  IF value.present /\ value.text # <<>>
  THEN [filter |-> TRUE, list |-> split(strip(value.text), ",")]
  ELSE [filter |-> FALSE, list |-> <<>>]

in_list(x, list) == \E k \in 1..Len(list) : list[k] = x

\* a loop that reads an entry while it is being written: the last atom of
\* each status is still missing
RECURSIVE render_loop_torn(_, _)
render_loop_torn(items, nodes) ==
  IF items = <<>> THEN <<>>
  ELSE LET host   == Head(items).host
           status == Head(items).status
           rest   == render_loop_torn(Tail(items), nodes)
       IN  IF status = <<>> THEN rest
           ELSE IF nodes.filter /\ (\A k \in 1..Len(nodes.list) : nodes.list[k] # host)
           THEN rest
           ELSE SubSeq(status, 1, Len(status) - 1) \o rest

\* the loop without its "host not in nodes" test
RECURSIVE render_loop_all(_, _)
render_loop_all(items, nodes) ==
  IF items = <<>> THEN <<>>
  ELSE IF Head(items).status = <<>> THEN render_loop_all(Tail(items), nodes)
  ELSE Head(items).status \o render_loop_all(Tail(items), nodes)

\* render_gpustat_body's loop over context.host_status.items()
RECURSIVE render_loop(_, _)
render_loop(items, nodes) ==
  IF items = <<>> THEN <<>>
  ELSE LET host   == Head(items).host
           status == Head(items).status
           rest   == render_loop(Tail(items), nodes)
       IN  IF status = <<>> THEN rest
           ELSE IF nodes.filter /\ ~in_list(host, nodes.list) THEN rest
           ELSE status \o rest

\* ansi_conv.convert(body, full=full_html): escape codes become markup
html_atom(a) ==
  IF a = WHITE THEN "<span class=white>"
  ELSE IF a = RED THEN "<span class=red>"
  ELSE IF a = RESET THEN "</span>"
  ELSE a

convert(body, full) ==
  LET inner == [k \in 1..Len(body) |-> html_atom(body[k])]
  IN  IF full THEN <<"<html>">> \o inner \o <<"</html>">> ELSE inner

\* RE_ANSI.sub('', body)
RECURSIVE strip_ansi(_)
strip_ansi(body) ==
  IF body = <<>> THEN <<>>
  ELSE IF Head(body) \in AnsiCodes THEN strip_ansi(Tail(body))
  ELSE <<Head(body)>> \o strip_ansi(Tail(body))

\* every mode rendered, an unknown one like ansi
render_gpustat_body_lenient(d, mode, full_html, nodes) ==
  LET body == render_loop(d, nodes)
  IN  IF mode = "html" THEN [error |-> "", body |-> convert(body, full_html)]
      ELSE IF mode = "plain" THEN [error |-> "", body |-> strip_ansi(body)]
      ELSE [error |-> "", body |-> body]

render_gpustat_body(d, mode, full_html, nodes) ==
  LET body == render_loop(d, nodes)
  IN  IF mode = "html" THEN [error |-> "", body |-> convert(body, full_html)]
      ELSE IF mode = "ansi" THEN [error |-> "", body |-> body]
      ELSE IF mode = "plain" THEN [error |-> "", body |-> strip_ansi(body)]
      ELSE [error |-> "ValueError", body |-> <<>>]

\* the requests viewers send to /gpustat.html, /gpustat.ansi and /gpustat.txt:
\* the route's content type, the full flag and the nodes value of the query
Requests ==
  { [mode |-> "html", full |-> TRUE, query |-> Absent],
    [mode |-> "html", full |-> FALSE, query |-> Text(<<"node2">>)],
    [mode |-> "plain", full |-> TRUE, query |-> Absent] }
  \cup { [mode |-> "ansi", full |-> TRUE, query |-> q] : q \in Queries }

\* make_static_handler(content_type).handler
static_handler(request) ==
  /\ phase = "serving"
  /\ response = NoResponse
  /\ LET nodes == _parse_querystring_list(request.query)
         out   == render_gpustat_body(host_status, request.mode, request.full, nodes)
     IN  response' = [via |-> "http", data |-> "", mode |-> request.mode,
                      full |-> request.full, query |-> request.query,
                      error |-> out.error, sent |-> out.error = "",
                      body |-> out.body]
  /\ over_ok' = FALSE
  /\ UNCHANGED <<config, phase, tasks, host_status, clients, pc, conn, exc,
                 cancel, last_result, ws>>

\* render_gpustat_body called with a mode that is none of html, ansi, plain
\* ('html_full' is the mode its signature's comment names)
RenderCalls ==
  { [mode |-> "html_full", full |-> TRUE, query |-> Absent],
    [mode |-> "json", full |-> FALSE, query |-> Text(<<"node2">>)] }

\* a direct call of render_gpustat_body(mode, full_html=..., nodes=...)
render_call(call) ==
  /\ response = NoResponse
  /\ LET nodes == _parse_querystring_list(call.query)
         out   == render_gpustat_body(host_status, call.mode, call.full, nodes)
     IN  response' = [via |-> "call", data |-> "", mode |-> call.mode,
                      full |-> call.full, query |-> call.query,
                      error |-> out.error, sent |-> out.error = "",
                      body |-> out.body]
  /\ over_ok' = FALSE
  /\ UNCHANGED <<config, phase, tasks, host_status, clients, pc, conn, exc,
                 cancel, last_result, ws>>

\* websocket_handler up to its "async for": the connection is accepted
ws_prepare ==
  /\ phase = "serving"
  /\ ws = "closed"
  /\ ws' = "open"
  /\ response' = NoResponse
  /\ over_ok' = FALSE
  /\ UNCHANGED <<config, phase, tasks, host_status, clients, pc, conn, exc,
                 cancel, last_result>>

\* inbound text messages: the word close, text that is no JSON, JSON that is
\* no object (an array, a number, a string, null), an object whose nodes value
\* is a non-zero number, an object whose nodes value is 0 (or false, or []),
\* and an object whose nodes value is absent or a string
WsMessages ==
  { [data |-> "close", nodes |-> Absent],
    [data |-> "not json", nodes |-> Absent],
    [data |-> "not object", nodes |-> Absent],
    [data |-> "nodes number", nodes |-> Absent],
    [data |-> "nodes zero", nodes |-> Absent] }
  \cup { [data |-> "object", nodes |-> q] : q \in Queries }

\* what _handle_websocketmessage raises for a message that is not "close":
\* json.loads raises JSONDecodeError, payload.get does not exist on a value
\* that is no dict, and value.strip does not exist on a number
ws_raises(msg) ==
  IF msg.data = "not json" THEN "JSONDecodeError"
  ELSE IF msg.data \in {"not object", "nodes number"} THEN "AttributeError"
  ELSE ""

\* _handle_websocketmessage, called from websocket_handler's "async for".
\* JSONDecodeError is caught and the message dropped; any other exception
\* leaves websocket_handler, which ends the connection.
ws_text(msg) ==
  /\ phase = "serving"
  /\ ws = "open"
  /\ response = NoResponse
  /\ IF msg.data = "close"
     THEN ws' = "closed" /\ response' = NoResponse
     ELSE IF ws_raises(msg) = "JSONDecodeError"
     THEN /\ ws' = ws
          /\ response' = [NoResponse EXCEPT !.via = "ws", !.data = msg.data]
     ELSE IF ws_raises(msg) # ""
     THEN /\ ws' = "closed"
          /\ response' = [NoResponse EXCEPT !.via = "ws", !.data = msg.data,
                                            !.error = ws_raises(msg)]
     ELSE LET nodes == _parse_querystring_list(msg.nodes)
              out   == render_gpustat_body(host_status, "html", FALSE, nodes)
          IN  /\ ws' = ws
              /\ response' = [via |-> "ws", data |-> msg.data, mode |-> "html",
                              full |-> FALSE, query |-> msg.nodes,
                              error |-> out.error, sent |-> TRUE,
                              body |-> out.body]
  /\ over_ok' = FALSE
  /\ UNCHANGED <<config, phase, tasks, host_status, clients, pc, conn, exc,
                 cancel, last_result>>

\* a CLOSE frame from the viewer ends the "async for"
ws_close ==
  /\ ws = "open"
  /\ ws' = "closed"
  /\ response' = NoResponse
  /\ over_ok' = FALSE
  /\ UNCHANGED <<config, phase, tasks, host_status, clients, pc, conn, exc,
                 cancel, last_result>>

------------------------------------------------------------------------------
Next ==
  \/ start_background_tasks
  \/ spawn_clients
  \/ startup_done
  \/ \E i \in Sup : connect_ok(i)
  \/ \E i \in Sup : connect_failed(i)
  \/ \E i \in Sup : run_done(i)
  \/ \E i \in Sup : run_raised(i)
  \/ \E i \in Sup : close_done(i)
  \/ \E i \in Sup : poll_sleep_done(i)
  \/ \E i \in Sup : backoff_done(i)
  \/ \E i \in Sup : cancelled_error(i)
  \/ \E i \in Sup : cancel_closed(i)
  \/ shutdown_background_tasks
  \/ gather_cancelled
  \/ \E request \in Requests : static_handler(request)
  \/ \E call \in RenderCalls : render_call(call)
  \/ ws_prepare
  \/ \E msg \in WsMessages : ws_text(msg)
  \/ ws_close

Spec == Init /\ [][Next]_vars

\* Hosts that keep refusing, hosts that keep answering, and at most one host
\* that may do anything.
InitModes ==
  /\ hosts \in HostLists
  /\ exec_cmds \in ExecCmdChoices
  /\ env \in {e \in [1..Len(hosts) -> Modes] :
                Cardinality({k \in DOMAIN e : e[k] = "any"}) <= 1}
  /\ interval = DEFAULT_INTERVAL
  /\ Idle

\* main: the hosts of the command line, exec_cmds always a dict (--exec), and
\* context.interval from --interval, before create_app and web.run_app
InitMain ==
  /\ hosts \in {<<Tok_node1>>, <<Tok_alice_node1_2222>>}
  /\ exec_cmds \in {c \in ExecCmdChoices : c.given}
  /\ env = [k \in 1..Len(hosts) |-> "any"]
  /\ interval \in {main_interval(arg) : arg \in IntervalArgs}
  /\ Idle

MainSpec == InitMain /\ [][Next]_vars

\* one step of the i-th run_client
Step(i) ==
  /\ i \in Sup
  /\ \/ connect_ok(i)
     \/ connect_failed(i)
     \/ run_done(i)
     \/ run_raised(i)
     \/ close_done(i)
     \/ poll_sleep_done(i)
     \/ backoff_done(i)
     \/ cancelled_error(i)
     \/ cancel_closed(i)

Tokens == 1..(CHOOSE n \in 0..9 : /\ \A hs \in HostLists : Len(hs) <= n
                                   /\ \E hl \in HostLists : Len(hl) = n)

\* The steps of the fleet alone. The readers change nothing a run_client or
\* the start-up reads, so they are left out where progress is checked.
Fleet ==
  \/ start_background_tasks
  \/ spawn_clients
  \/ startup_done
  \/ \E i \in Sup : connect_ok(i)
  \/ \E i \in Sup : connect_failed(i)
  \/ \E i \in Sup : run_done(i)
  \/ \E i \in Sup : run_raised(i)
  \/ \E i \in Sup : close_done(i)
  \/ \E i \in Sup : poll_sleep_done(i)
  \/ \E i \in Sup : backoff_done(i)
  \/ \E i \in Sup : cancelled_error(i)
  \/ \E i \in Sup : cancel_closed(i)
  \/ shutdown_background_tasks
  \/ gather_cancelled

\* Every await of a run_client ends: asyncssh.connect and conn.run return or
\* raise (conn.run within its timeout), the sleeps end, the event loop
\* delivers a cancellation, and a closing connection gets closed.
LiveSpec ==
  /\ InitModes
  /\ [][Fleet]_vars
  /\ \A i \in Tokens : WF_vars(Step(i))

------------------------------------------------------------------------------
\* What the entries look like, written out

entry(h) == item(host_status, h)
latest(h) == item(last_result, h)

label(h) == <<WHITE, "(">> \o h \o <<") ", RESET>>

FailureEntry(h, kind, msg) ==
  label(h) \o <<RED, kind, ": ">> \o msg \o <<RESET, "\n">>

------------------------------------------------------------------------------
\* C1: for two hosts A and B, no step of A's supervisor changes B's store
\* entry or B's supervisor, no supervisor is cancelled or ended and the fleet
\* task keeps running until the application shuts down, and when A refuses
\* every connection while B always answers, B's supervisor completes a poll
\* and writes B's entry again and again (until the application shuts down).
C1_OthersUntouched ==
  \A a \in Tokens, b \in Tokens :
    (a \in Sup /\ b \in Sup /\ host_of(a) # host_of(b) /\ pc'[a] # pc[a])
      => /\ item(host_status', host_of(b)) = item(host_status, host_of(b))
         /\ pc'[b] = pc[b]
         /\ conn'[b] = conn[b]
         /\ cancel'[b] = cancel[b]
         /\ tasks' = tasks

C1_NobodyEnded ==
  phase # "stopped" =>
    /\ \A i \in Sup : pc[i] \notin {"cancel_closing", "cancelled"} /\ ~cancel[i]
    /\ Sup # {} => tasks = "running"

C1_Isolation ==
  /\ [][C1_OthersUntouched]_vars
  /\ []C1_NobodyEnded
  /\ \A a \in Tokens, b \in Tokens :
       [](mode_of(a) = "fail" /\ mode_of(b) = "ok" /\ host_of(a) # host_of(b)
            => <>(phase = "stopped" \/ where(b) = "sleeping"))
  /\ \A a \in Tokens, b \in Tokens :
       [](mode_of(a) = "fail" /\ mode_of(b) = "ok" /\ host_of(a) # host_of(b)
            => <>(phase = "stopped" \/ where(b) = "running"))

\* A has failed and backs off while B sleeps after a successful poll
C1_Witness ==
  \E a \in Sup, b \in Sup :
    /\ env[a] = "fail" /\ env[b] = "ok" /\ hostname(a) # hostname(b)
    /\ pc[a] = "backoff" /\ latest(hostname(a)).type = "exc"
    /\ pc[b] = "sleeping" /\ Succeeded(latest(hostname(b)))

\* C2: a supervisor whose connection attempt fails writes the failure message
\* "<ErrorKind>: <message>" into its host's entry as it starts to back off, it
\* ends only when the application shuts down, and when every attempt fails it
\* backs off and connects again, again and again (until the shutdown).
C2_FailureWritten ==
  \A i \in Tokens :
    (i \in Sup /\ pc[i] = "connecting" /\ pc'[i] = "backoff")
      => \E e \in ConnectErrors :
           item(host_status', host_of(i)) = FailureEntry(host_of(i), e.kind, e.msg)

C2_RetriesForever ==
  /\ [][C2_FailureWritten]_vars
  /\ [](\A i \in Sup : pc[i] \in {"cancel_closing", "cancelled"} => phase = "stopped")
  /\ \A i \in Tokens :
       [](mode_of(i) = "fail" => <>(phase = "stopped" \/ where(i) = "backoff"))
  /\ \A i \in Tokens :
       [](mode_of(i) = "fail" => <>(phase = "stopped" \/ where(i) = "connecting"))

\* a refusing host's supervisor connects again after a failure was written
C2_Witness ==
  \E i \in Sup :
    /\ env[i] = "fail" /\ pc[i] = "connecting"
    /\ \E e \in ConnectErrors :
         entry(hostname(i)) = FailureEntry(hostname(i), e.kind, e.msg)

------------------------------------------------------------------------------
\* The configured hosts: what each well-formed token of the host list names

WellFormed == {k \in 1..Len(hosts) : _parse_host_string(hosts[k], default_port).ok}
endpoint(k) == _parse_host_string(hosts[k], default_port)
Configured == {endpoint(k).hostname : k \in WellFormed}

\* C3: once a supervisor can act or a snapshot can be served, the store holds
\* exactly one entry for every configured hostname, its text is not empty, and
\* it is the "Loading ..." placeholder until the host's first attempt is over.
C3_EntryPerHost ==
  (phase = "serving" \/ Sup # {}) =>
    \A h \in Configured :
      /\ Cardinality({k \in DOMAIN host_status : host_status[k].host = h}) = 1
      /\ entry(h) # <<>>
      /\ latest(h).type = "loading" => entry(h) = label(h) \o LOADING \o <<"\n">>

\* C4: when a token of the list is malformed, every well-formed token of the
\* list still gets its placeholder entry and a supervisor of its own.
C4_PartialFleet ==
  (tasks \in {"running", "done"} /\ exec_cmds.given /\ WellFormed # DOMAIN hosts) =>
    \A k \in WellFormed :
      /\ has_key(host_status, endpoint(k).hostname)
      /\ \E i \in Sup : /\ clients[i].hostname = endpoint(k).hostname
                        /\ clients[i].username = endpoint(k).username
                        /\ clients[i].port = endpoint(k).port

\* C5: whatever the host list, no two supervisors write the same hostname's
\* entry and no two commands for the same hostname are in flight at once.
C5_OnePerHost ==
  \A i \in Sup, j \in Sup :
    (i # j /\ hostname(i) = hostname(j)) =>
      /\ ~(pc[i] = "running" /\ pc[j] = "running")
      /\ ~(pc[i] \in {"sleeping", "backoff"} /\ pc[j] \in {"sleeping", "backoff"})

\* C6: once the shutdown has cancelled a supervisor, that supervisor writes
\* nothing more, starts no connection and no command, and only goes on to
\* close the connection it held; it ends, and ends holding no connection.
C6_AfterCancel ==
  \A i \in Tokens :
    (i \in Sup /\ (cancel[i] \/ pc[i] \in {"cancel_closing", "cancelled"})) =>
      /\ pc'[i] \in {pc[i], "cancel_closing", "cancelled"}
      /\ pc'[i] # pc[i] => host_status' = host_status
      /\ conn'[i] = "open" => (conn[i] = "open" /\ pc'[i] = pc[i])
      /\ pc'[i] = "cancelled" => conn'[i] = "none"

C6_AllCancelled ==
  (phase = "serving" /\ phase' = "stopped" /\ tasks = "running") =>
    \A i \in Sup : cancel'[i]

C6_CancelStops ==
  /\ [][C6_AfterCancel /\ C6_AllCancelled]_vars
  /\ [](phase = "stopped"
          => <>(\A i \in Sup : pc[i] = "cancelled" /\ conn[i] = "none"))

\* a supervisor cancelled after a successful poll is closing its connection
C6_Witness ==
  \E i \in Sup :
    /\ pc[i] = "cancel_closing"
    /\ Succeeded(latest(hostname(i)))
    /\ entry(hostname(i)) = strip(latest(hostname(i)).stdout) \o <<"\n", "\n", "\n", "\n">>

\* C7: in the state where the stop operation returns, no supervisor holds an
\* open session any more.
C7_StopWaits ==
  [][(phase = "serving" /\ phase' = "stopped")
       => \A i \in Sup : conn'[i] # "open"]_vars

------------------------------------------------------------------------------
\* the first line of a text
first_line(t) ==
  IF \E k \in 1..Len(t) : t[k] = "\n"
  THEN SubSeq(t, 1, (CHOOSE k \in 1..Len(t) :
                       t[k] = "\n" /\ \A m \in 1..(k - 1) : t[m] # "\n") - 1)
  ELSE t

\* t is s without its leading and trailing whitespace
Trimmed(s, t) ==
  \E i \in 0..Len(s), j \in 0..Len(s) :
    /\ i + j <= Len(s)
    /\ t = SubSeq(s, i + 1, Len(s) - j)
    /\ \A k \in 1..i : s[k] \in Whitespace
    /\ \A k \in (Len(s) - j + 1)..Len(s) : s[k] \in Whitespace
    /\ t # <<>> => (t[1] \notin Whitespace /\ t[Len(t)] \notin Whitespace)

FourNewlines == <<"\n", "\n", "\n", "\n">>

\* the entry that shows the result r of one attempt for host h, and nothing else
Shows(text, h, r) ==
  IF r.type = "loading" THEN text = label(h) \o LOADING \o <<"\n">>
  ELSE IF r.type = "exc" THEN text = FailureEntry(h, r.kind, r.msg)
  ELSE IF r.exit_status # 0
  THEN text = label(h) \o <<RED, "[Error ", ToString(r.exit_status), "] ">>
                \o first_line(r.stderr) \o <<RESET, "\n">>
  ELSE \E t \in Outputs : Trimmed(r.stdout, t) /\ text = t \o FourNewlines

\* C8: a host's entry always shows the result of the host's latest finished
\* poll or connection attempt alone; a failure written after a successful poll
\* leaves nothing of the earlier output in the entry.
C8_LatestOnly ==
  /\ Len(host_status) = Len(last_result)
  /\ \A k \in DOMAIN host_status :
       /\ host_status[k].host = last_result[k].host
       /\ Shows(host_status[k].status, host_status[k].host, last_result[k].status)

\* the step just taken wrote a failure over the output of a successful poll
C8_Witness ==
  /\ over_ok
  /\ \E k \in DOMAIN host_status :
       /\ ~Succeeded(last_result[k].status)
       /\ last_result[k].status.type # "loading"
       /\ Shows(host_status[k].status, host_status[k].host, last_result[k].status)

------------------------------------------------------------------------------
\* the reply is a raw snapshot of host h alone
RawOf(h) ==
  /\ response.via = "http" /\ response.mode = "ansi"
  /\ \/ response.query = Text(h)
     \/ response.query = Absent /\ Len(host_status) = 1
  /\ has_key(host_status, h)

\* C9 as stated: after a successful poll for H, a raw snapshot of H is exactly
\* the command's captured output, whatever the output.
C9_ExactOutput ==
  \A k \in DOMAIN last_result :
    (RawOf(last_result[k].host) /\ Succeeded(last_result[k].status))
      => response.body = last_result[k].status.stdout

\* C9 as amended: after a successful poll for H, a raw snapshot of H is the
\* command's captured output without its leading and trailing whitespace,
\* followed by four newlines.
C9_TrimmedOutput ==
  \A k \in DOMAIN last_result :
    (RawOf(last_result[k].host) /\ Succeeded(last_result[k].status))
      => \E t \in Outputs : /\ Trimmed(last_result[k].status.stdout, t)
                            /\ response.body = t \o FourNewlines

\* a raw snapshot of a host whose latest output began or ended with whitespace
C9_Witness ==
  \E k \in DOMAIN last_result :
    LET out == last_result[k].status.stdout
    IN  /\ RawOf(last_result[k].host) /\ Succeeded(last_result[k].status)
        /\ out # <<>>
        /\ (out[1] \in Whitespace \/ out[Len(out)] \in Whitespace)
        /\ \E m \in 1..Len(out) : out[m] \notin Whitespace

------------------------------------------------------------------------------
\* host filters: lists of hostnames, empty, with unknown hosts, with repeats
FilterLists ==
  { <<>>, <<Tok_node1>>, <<Tok_node2>>, <<Tok_node1, Tok_node2>>,
    <<Tok_node2, Tok_node1>>, <<Tok_node2, Tok_node2>>, << <<"node3">> >>,
    << <<" ", "node2">> >> }

\* the blocks of the stored hosts that F names, in the order of the store
RECURSIVE Blocks(_, _)
Blocks(k, F) ==
  IF k > Len(host_status) THEN <<>>
  ELSE (IF \E m \in DOMAIN F : F[m] = host_status[k].host
        THEN host_status[k].status ELSE <<>>) \o Blocks(k + 1, F)

\* the hostnames a nodes value names: the pieces between its commas, the
\* value's outer whitespace dropped
Named(text) == split(strip(text), ",")

InForm(mode, full, body) ==
  IF mode = "html" THEN convert(body, full)
  ELSE IF mode = "plain" THEN strip_ansi(body)
  ELSE body

\* C10: a filtered snapshot holds the blocks of exactly the stored hosts the
\* filter names, in the store's order, and no block of any other host; the
\* live-channel request {"nodes": "node2"} is answered with node2's block only.
C10_OnlyFiltered ==
  /\ \A F \in FilterLists :
       render_gpustat_body(host_status, "ansi", TRUE,
                           [filter |-> TRUE, list |-> F]).body = Blocks(1, F)
  /\ (response.sent /\ response.query.present /\ response.query.text # <<>>)
       => response.body = InForm(response.mode, response.full,
                                 Blocks(1, Named(response.query.text)))
  /\ (response.via = "ws" /\ response.query = Text(Tok_node2)
        /\ has_key(host_status, Tok_node2))
       => response.body = convert(entry(Tok_node2), FALSE)

\* the live channel answered {"nodes": "node2"} while node1 has an entry too
C10_Witness ==
  /\ response.via = "ws" /\ response.query = Text(Tok_node2)
  /\ has_key(host_status, Tok_node1) /\ has_key(host_status, Tok_node2)
  /\ entry(Tok_node1) # <<>>
  /\ latest(Tok_node1).type # "loading"
  /\ response.body = convert(entry(Tok_node2), FALSE)

------------------------------------------------------------------------------
\* the messages that are neither "close" nor a well-formed request
Malformed == {"not json", "not object", "nodes number", "nodes zero"}

\* C11: a live-channel text message other than "close" that is no well-formed
\* request (no JSON, JSON that is no object, an object whose nodes value is no
\* string) is answered with nothing, and the connection stays open.
C11_MalformedIgnored ==
  (response.via = "ws" /\ response.data \in Malformed)
    => (~response.sent /\ ws = "open")

\* C12: when the host list holds no valid host (every token malformed, or no
\* token at all), start-up fails: the service never gets to serve snapshots.
C12_NoHostsNoService ==
  WellFormed = {} => phase \notin {"serving", "stopped"}

------------------------------------------------------------------------------
SupportedModes == {"html", "ansi", "plain"}

\* C13: a render asked for in a mode other than html, ansi and plain ends with
\* an error for its caller and returns nothing, and no render or snapshot
\* call, failing or not, changes the store.
C13_ReadOnly ==
  (response'.via # "none") => host_status' = host_status

------------------------------------------------------------------------------
\* the parts a host token is written from: user names of word characters and
\* hyphens, host names without a colon, ports in digits (with their values)
UserParts == { <<"alice">>, <<"bob">>, <<"alice", "-", "2">> }
HostParts == { <<"node1">>, <<"node2">>, <<"node1", ".", "node2">>, <<"node1", "-", "2">> }
PortParts == { [text |-> <<"2">>, value |-> 2],
               [text |-> <<"2", "2">>, value |-> 22],
               [text |-> <<"2", "2", "2", "2">>, value |-> 2222] }
DefaultPorts == {default_port, 2200}

Endpoint(u, h, p) == [ok |-> TRUE, username |-> u, hostname |-> h, port |-> p]

\* C14: a token [user@]host[:port] parses to its user, host and port, with
\* the user "netdb" when it has no user part and the default port when it has
\* no port part; the fleet configured as ["alice@node1:2222", "node2"] with
\* default port 22 is started for (alice, node1, 2222) and (netdb, node2, 22).
\* (The parse reads no state: it is checked as the service is constructed.)
C14_ParsesParts ==
  \A h \in HostParts, d \in DefaultPorts :
       /\ _parse_host_string(h, d) = Endpoint(<<"netdb">>, h, d)
       /\ \A u \in UserParts :
            _parse_host_string(u \o <<"@">> \o h, d) = Endpoint(u, h, d)
       /\ \A p \in PortParts :
            /\ _parse_host_string(h \o <<":">> \o p.text, d)
                 = Endpoint(<<"netdb">>, h, p.value)
            /\ \A u \in UserParts :
                 _parse_host_string(u \o <<"@">> \o h \o <<":">> \o p.text, d)
                   = Endpoint(u, h, p.value)

------------------------------------------------------------------------------
\* C15: once the fleet is started from a list of well-formed tokens, there is
\* exactly one supervisor per parsed endpoint, whether or not per-host command
\* overrides were given (exec_cmds left at its default included).
C15_OnePerEndpoint ==
  (tasks \notin {"none", "pending"} /\ WellFormed = DOMAIN hosts /\ hosts # <<>>) =>
    /\ Len(clients) = Len(hosts)
    /\ \A k \in DOMAIN hosts :
         /\ clients[k].hostname = endpoint(k).hostname
         /\ clients[k].username = endpoint(k).username
         /\ clients[k].port = endpoint(k).port

------------------------------------------------------------------------------
\* C16: an exception inside the polling loop makes the supervisor close its
\* session, write the failure message for its host as the backoff sleep
\* begins, and go back to connecting after the sleep; the session is open only
\* while polling, and there is none during backoff or a connection attempt.
C16_SessionOnlyPolling ==
  \A i \in Sup :
    /\ pc[i] \in {"backoff", "connecting"} => conn[i] = "none"
    /\ conn[i] = "open" => pc[i] \in {"running", "sleeping"}

C16_Disconnected ==
  \A i \in Tokens :
    i \in Sup =>
      /\ (pc[i] = "running" /\ pc'[i] \notin {"running", "sleeping", "cancel_closing"})
           => (pc'[i] = "closing" /\ conn'[i] = "closing"
               /\ host_status' = host_status)
      /\ (pc[i] = "closing" /\ pc'[i] \notin {"closing", "cancel_closing"})
           => /\ pc'[i] = "backoff" /\ conn'[i] = "none"
              /\ item(host_status', host_of(i))
                   = FailureEntry(host_of(i), exc[i].kind, exc[i].msg)
      /\ (pc[i] = "backoff" /\ pc'[i] # "backoff")
           => (pc'[i] \in {"connecting", "cancelled"} /\ conn'[i] = "none")

C16_PollingFailure ==
  /\ []C16_SessionOnlyPolling
  /\ [][C16_Disconnected]_vars

\* a supervisor backs off, its session closed, after its command timed out
C16_Witness ==
  \E i \in Sup :
    /\ pc[i] = "backoff" /\ conn[i] = "none"
    /\ \E e \in RunErrors :
         /\ latest(hostname(i)) = Raised(e)
         /\ entry(hostname(i)) = FailureEntry(hostname(i), e.kind, e.msg)

------------------------------------------------------------------------------
\* the text has one line: its only newline is its last atom
OneLine(text) ==
  /\ text # <<>>
  /\ \A k \in 1..Len(text) : (text[k] = "\n") <=> (k = Len(text))

\* the i-th supervisor's command just returned a non-zero exit status
NonZeroExit(i) ==
  /\ pc[i] = "running" /\ pc'[i] = "sleeping"
  /\ ~Succeeded(item(last_result', host_of(i)))

\* C17: a command that returns a non-zero exit status makes the supervisor
\* write a one-line failure message built from the first line of the error
\* stream and keep its session; it sleeps, and then (unless the application
\* shuts down) runs the command again on the same session, without a backoff.
C17_StaysPolling ==
  \A i \in Tokens :
    i \in Sup =>
      /\ NonZeroExit(i) =>
           LET r == item(last_result', host_of(i))
               text == item(host_status', host_of(i))
           IN  /\ r.type = "run" /\ r.exit_status # 0
               /\ text = label(host_of(i))
                           \o <<RED, "[Error ", ToString(r.exit_status), "] ">>
                           \o first_line(r.stderr) \o <<RESET, "\n">>
               /\ OneLine(text)
               /\ conn[i] = "open" /\ conn'[i] = "open"
      /\ (pc[i] = "sleeping" /\ pc'[i] # "sleeping")
           => \/ pc'[i] = "running" /\ conn'[i] = "open"
              \/ pc'[i] = "cancel_closing"

C17_NonZeroExit ==
  /\ [][C17_StaysPolling]_vars
  /\ \A i \in Tokens :
       [](where(i) = "sleeping" => <>(where(i) = "running" \/ phase = "stopped"))

\* a supervisor runs its command again, on its open session, after the
\* command returned a non-zero exit status with two lines of error output
C17_Witness ==
  \E i \in Sup :
    /\ pc[i] = "running" /\ conn[i] = "open"
    /\ latest(hostname(i)).type = "run"
    /\ latest(hostname(i)).exit_status # 0
    /\ \E k \in 2..Len(latest(hostname(i)).stderr) :
         latest(hostname(i)).stderr[k - 1] = "\n"
    /\ OneLine(entry(hostname(i)))

------------------------------------------------------------------------------
\* the text is a failure message for host h
IsFailureText(text, h) ==
  \/ \E e \in ConnectErrors \cup RunErrors : text = FailureEntry(h, e.kind, e.msg)
  \/ \E x \in NonZeroExits, err \in Stderrs :
       text = label(h) \o <<RED, "[Error ", ToString(x), "] ">>
                \o first_line(err) \o <<RESET, "\n">>

\* the text is the output of the poll of host h that just succeeded
IsFreshOutput(text, h) ==
  /\ \E i \in Sup : hostname(i) = h /\ pc[i] = "running" /\ pc'[i] = "sleeping"
  /\ Succeeded(item(last_result', h))
  /\ \E t \in Outputs : Trimmed(item(last_result', h).stdout, t)
                        /\ text = t \o FourNewlines

\* a step in which the i-th supervisor's connection attempt or command fails
Fails(i) ==
  /\ i \in Sup
  /\ \/ connect_failed(i)
     \/ run_raised(i)
     \/ run_done(i) /\ ~Succeeded(item(last_result', host_of(i)))

\* the same for any supervisor of the i-th supervisor's host
FailsFor(i) == \E j \in Tokens : host_of(j) = host_of(i) /\ Fails(j)

ShowsFailure(i) ==
  i \in Sup /\ IsFailureText(item(host_status, host_of(i)), host_of(i))

ShowsOutput(i) ==
  i \in Sup /\ Succeeded(item(last_result, host_of(i)))
            /\ \E t \in Outputs : item(host_status, host_of(i)) = t \o FourNewlines

\* C18: an entry that is a failure message changes only into another failure
\* message or into the output of a poll that has just succeeded, never into
\* the placeholder or an earlier output; and when from some point on the
\* host's connection attempts and commands all succeed, a failure message in
\* its entry is eventually replaced by the output (unless the application
\* shuts down first).
C18_StaysFailure ==
  \A k \in DOMAIN host_status :
    IsFailureText(host_status[k].status, host_status[k].host) =>
      \/ host_status'[k].status = host_status[k].status
      \/ IsFailureText(host_status'[k].status, host_status[k].host)
      \/ IsFreshOutput(host_status'[k].status, host_status[k].host)

C18_FailureUntilRecovery ==
  /\ [][C18_StaysFailure]_vars
  /\ \A i \in Tokens :
       (<>[][~FailsFor(i)]_vars)
         => [](ShowsFailure(i) => <>(ShowsOutput(i) \/ phase = "stopped"))

\* a host's entry still shows the refused connection while its supervisor,
\* connected again, waits for the result of its command
C18_Witness ==
  \E i \in Sup :
    /\ mode_of(i) = "any" /\ pc[i] = "running" /\ conn[i] = "open"
    /\ ShowsFailure(i)
    /\ \E e \in ConnectErrors : latest(hostname(i)) = Raised(e)

------------------------------------------------------------------------------
\* C19: the delay every supervisor sleeps between polls and before it
\* connects again is the configured interval, whatever --interval was given.
C19_DelayIsInterval ==
  \A i \in Sup : clients[i].poll_delay = interval

------------------------------------------------------------------------------
\* the text one store write produces for the result r of an attempt for host h
WholeText(h, r) ==
  IF r.type = "loading" THEN label(h) \o LOADING \o <<"\n">>
  ELSE IF r.type = "exc" THEN FailureEntry(h, r.kind, r.msg)
  ELSE IF r.exit_status # 0
  THEN label(h) \o <<RED, "[Error ", ToString(r.exit_status), "] ">>
         \o first_line(r.stderr) \o <<RESET, "\n">>
  ELSE (CHOOSE t \in Outputs : Trimmed(r.stdout, t)) \o FourNewlines

\* the hosts a reply was asked for: all of them, or the ones its nodes value names
Asked(r, h) ==
  (r.query.present /\ r.query.text # <<>>)
    => \E m \in DOMAIN Named(r.query.text) : Named(r.query.text)[m] = h

\* the texts written last for the hosts asked for, whole, in the store's order
RECURSIVE WrittenNow(_, _)
WrittenNow(k, r) ==
  IF k > Len(last_result) THEN <<>>
  ELSE (IF Asked(r, last_result[k].host)
        THEN WholeText(last_result[k].host, last_result[k].status) ELSE <<>>)
       \o WrittenNow(k + 1, r)

\* C20: every snapshot sent, over HTTP or the live channel, while supervisors
\* write, is made of the texts that the latest write for each host stored
\* whole, all of them as the store holds them at the instant of the call.
C20_SnapshotAtOneInstant ==
  response.sent =>
    /\ response.body = InForm(response.mode, response.full, WrittenNow(1, response))
    /\ Len(host_status) = Len(last_result)
    /\ \A k \in DOMAIN host_status :
         host_status[k].status
           = WholeText(last_result[k].host, last_result[k].status)

\* an unfiltered snapshot of two hosts, one showing output and one a failure,
\* sent while a supervisor waits for its command's result
C20_Witness ==
  /\ response.sent /\ response.via \in {"http", "ws"} /\ ~response.query.present
  /\ Len(host_status) = 2
  /\ \E i \in Sup : pc[i] = "running"
  /\ \E a \in DOMAIN last_result, b \in DOMAIN last_result :
       /\ Succeeded(last_result[a].status) /\ last_result[a].status.stdout # <<>>
       /\ last_result[b].status.type = "exc"
  /\ response.body # <<>>

====
